---- MODULE Spec2Model ----
(***************************************************************************)
(* Model of the AIpStack event loop dispatch core                          *)
(* (src/aipstack/event_loop/EventLoop.h, EventLoop.cpp): the five-state    *)
(* timer machine on top of the timer heap, the run() iteration, and the    *)
(* cross-thread async-signal lists protected by m_async_signal_mutex.      *)
(***************************************************************************)
EXTENDS Integers, Sequences, FiniteSets, TLC

(* ------------------------------ bounds --------------------------------- *)

\* number of EventLoopTimer objects user code may construct
NumTimers == 2
\* largest value the monotonic clock reaches
MaxTime == 1
\* number of EventLoopAsyncSignal objects
NumSignals == 2
\* number of threads other than the loop thread
NumThreads == 1
\* calls user code makes on the loop thread
MaxOps == 3

\* number of EventLoopFdWatcher objects
NumWatchers == 2
\* number of file descriptors user code has
NumFds == 2
\* number of event kinds of EventLoopFdEvents
NumEvents == 1

Timers == 1..NumTimers
Watchers == 1..NumWatchers
\* file descriptors are 0, 1, ...
Fds == 0..(NumFds - 1)
\* the values of EventLoopFdEvents: sets of event kinds
EventMasks == SUBSET (1..NumEvents)
Signals == 1..NumSignals
Threads == 1..NumThreads

\* EventLoopTime::max()
TimeMax == MaxTime + 1
\* the readings of EventLoopClock::now()
ClockTimes == 0..MaxTime
\* the values of EventLoopTime user code passes to setAt
Times == 0..TimeMax
\* the durations user code passes to setAfter
Durations == 0..1

VARIABLES
    alive,                  \* the constructed, not yet destroyed timers
    m_state,                \* EventLoopTimer::m_state
    m_time,                 \* EventLoopTimer::m_time
    m_timer_heap,           \* EventLoop::m_timer_heap, as the array of a binary heap
    m_stop,                 \* EventLoop::m_stop
    m_event_time,           \* EventLoop::m_event_time
    m_last_wait_time,       \* EventLoop::m_last_wait_time
    m_pending_async_list,   \* EventLoop::m_pending_async_list, head to tail
    m_dispatch_async_list,  \* EventLoop::m_dispatch_async_list, head to tail
    removed,                \* the signals whose list node carries the removed marker
    mutex,                  \* holder of EventLoop::m_async_signal_mutex
    thr,                    \* position of each other thread inside signal()
    wakeup,                 \* the provider's wakeup was requested and not yet consumed by a wait
    pc,                     \* position of the loop thread
    cur,                    \* the object whose handler the loop thread is running
    fired,                  \* history: timers whose handler ran in this iteration
    last_fired,             \* history: the timer fired last, its deadline then, and whether in this iteration
    armed,                  \* history: timers armed from a handler in this iteration
    cancelled,              \* history: timers unset or destroyed and not armed since
    rearm,                  \* history: the deadline a timer's own handler gave it in this iteration
    owed,                   \* history: timers their handler re-armed in the previous iteration, due in this one
    nops,                   \* user calls made so far
    batch,                  \* history: the nodes the running dispatch_async_signals call took over
    done,                   \* history: the signals whose handler the running call has invoked
    order,                  \* history: the linked signals in the order of the signal() calls that queued them
    time_changed,           \* the hint prepare_timers_for_wait returned to the wait in progress
    walive,                 \* the constructed, not yet destroyed fd watchers
    m_watched_fd,           \* EventLoopFdWatcher::m_watched_fd
    m_events,               \* EventLoopFdWatcher::m_events
    registered,             \* the provider's table: for each fd, whether it is registered and its mask
    provider_call,          \* history: the call the last watcher operation made on the provider
    raised                  \* history: signal() calls on a signal since it was last off the lists (0, 1, 2 for more)

vars == <<alive, m_state, m_time, m_timer_heap, m_stop, m_event_time,
          m_last_wait_time, m_pending_async_list, m_dispatch_async_list,
          removed, mutex, thr, wakeup, pc, cur, fired, last_fired, armed,
          cancelled, rearm, owed, raised, nops, batch, done, order,
          time_changed, walive, m_watched_fd, m_events, registered,
          provider_call>>

timerVars == <<alive, m_state, m_time, m_timer_heap>>
asyncVars == <<m_pending_async_list, m_dispatch_async_list, removed, mutex,
               wakeup, raised>>
loopVars == <<m_stop, m_event_time, m_last_wait_time>>

\* user code makes one more call
Count == nops < MaxOps /\ nops' = nops + 1
\* user code makes two calls in a row
Count2 == nops + 1 < MaxOps /\ nops' = nops + 2
timerHist == <<fired, last_fired, armed, cancelled, rearm, owed>>
asyncHist == <<batch, done, order>>
fdVars == <<walive, m_watched_fd, m_events, registered, provider_call>>

NoTime == 0 - 1
NoObject == 0
\* m_watched_fd of a watcher without fd
NoFd == 0 - 1
\* the provider's entry for an fd that is not registered
Unregistered == [on |-> FALSE, mask |-> {}]
\* rearm[t].time is the deadline the handler of t gave t, and rearm[t].intact
\* tells that no other call has armed t since
NoRearm == [time |-> NoTime, intact |-> FALSE]

(* --------------------------- timer states ------------------------------ *)

TimerStateOrderBits == 2
TimerStateOrderMask == 2^TimerStateOrderBits - 1

TimerState == {"Idle", "Dispatch", "TempUnset", "TempSet", "Pending"}

\* the encoding of enum class TimerState
TimerStateValue(s) ==
    CASE s = "Idle" -> 0
      [] s = "Dispatch" -> 1
      [] s = "TempUnset" -> 2
      [] s = "TempSet" -> 2 + 2^TimerStateOrderBits
      [] s = "Pending" -> 3

\* std::uint8_t(m_state) & TimerStateOrderMask
StateOrder(s) == TimerStateValue(s) % (TimerStateOrderMask + 1)

OneOfHeapTimerStates == {"Dispatch", "TempUnset", "TempSet", "Pending"}

\* mutant: the deadlines are not compared
compareEntriesOrderOnly(st, tm, ref1, ref2) ==
    LET order1 == StateOrder(st[ref1])
        order2 == StateOrder(st[ref2])
    IN  IF order1 # order2
        THEN (IF order1 < order2 THEN 0 - 1 ELSE 1)
        ELSE 0

compareEntries(st, tm, ref1, ref2) ==
    LET order1 == StateOrder(st[ref1])
        order2 == StateOrder(st[ref2])
    IN  IF order1 # order2
        THEN (IF order1 < order2 THEN 0 - 1 ELSE 1)
        ELSE IF tm[ref1] # tm[ref2]
             THEN (IF tm[ref1] < tm[ref2] THEN 0 - 1 ELSE 1)
             ELSE 0

\* mutant: a timer due one tick after the key compares as due
compareKeyEntryOffByOne(tm, time1, ref2) ==
    IF time1 + 1 # tm[ref2]
    THEN (IF time1 + 1 < tm[ref2] THEN 0 - 1 ELSE 1)
    ELSE 0

compareKeyEntry(tm, time1, ref2) ==
    IF time1 # tm[ref2]
    THEN (IF time1 < tm[ref2] THEN 0 - 1 ELSE 1)
    ELSE 0

isSet(t) == m_state[t] \notin {"Idle", "TempUnset"}

(* ----------------------------- timer heap ------------------------------ *)
(* LinkedHeap: a binary min-heap under TimerCompare.  h is the sequence of *)
(* the nodes in level order; st and tm are the keys the comparator reads.  *)

HeapSet(h) == {h[i] : i \in 1..Len(h)}

IndexOf(h, t) == CHOOSE i \in 1..Len(h) : h[i] = t

Swap(h, i, j) == [h EXCEPT ![i] = h[j], ![j] = h[i]]

RECURSIVE BubbleUp(_, _, _, _)
BubbleUp(st, tm, h, i) ==
    IF i > 1 /\ compareEntries(st, tm, h[i], h[i \div 2]) < 0
    THEN BubbleUp(st, tm, Swap(h, i, i \div 2), i \div 2)
    ELSE h

RECURSIVE BubbleDown(_, _, _, _)
BubbleDown(st, tm, h, i) ==
    IF 2 * i > Len(h)
    THEN h
    ELSE LET l == 2 * i
             r == 2 * i + 1
             m == IF r <= Len(h) /\ compareEntries(st, tm, h[r], h[l]) < 0
                  THEN r ELSE l
         IN  IF compareEntries(st, tm, h[m], h[i]) < 0
             THEN BubbleDown(st, tm, Swap(h, i, m), m)
             ELSE h

HeapFixupAt(st, tm, h, i) ==
    IF i > 1 /\ compareEntries(st, tm, h[i], h[i \div 2]) < 0
    THEN BubbleUp(st, tm, h, i)
    ELSE BubbleDown(st, tm, h, i)

HeapInsert(st, tm, h, t) == BubbleUp(st, tm, Append(h, t), Len(h) + 1)

HeapFixup(st, tm, h, t) == HeapFixupAt(st, tm, h, IndexOf(h, t))

HeapRemove(st, tm, h, t) ==
    LET i == IndexOf(h, t)
        n == Len(h)
        cut == SubSeq(h, 1, n - 1)
    IN  IF i = n
        THEN cut
        ELSE HeapFixupAt(st, tm, [cut EXCEPT ![i] = h[n]], i)

HeapFirst(h) == IF Len(h) = 0 THEN NoObject ELSE h[1]

\* the nodes findAllLesserOrEqual visits: it descends from the root and
\* prunes a subtree whose root compares greater than the key
RECURSIVE FindAllLesserOrEqual(_, _, _, _)
FindAllLesserOrEqual(tm, h, now, i) ==
    IF i > Len(h)
    THEN {}
    ELSE IF compareKeyEntry(tm, now, h[i]) >= 0
         THEN {h[i]} \cup FindAllLesserOrEqual(tm, h, now, 2 * i)
                     \cup FindAllLesserOrEqual(tm, h, now, 2 * i + 1)
         ELSE {}

(* ------------------------------- Init ---------------------------------- *)

Init ==
    /\ alive = {}
    /\ m_state = [t \in Timers |-> "Idle"]
    /\ m_time = [t \in Timers |-> 0]
    /\ m_timer_heap = <<>>
    /\ m_stop = FALSE
    /\ m_event_time = 0
    /\ m_last_wait_time = TimeMax
    /\ m_pending_async_list = <<>>
    /\ m_dispatch_async_list = <<>>
    /\ removed = Signals
    /\ mutex = "free"
    /\ wakeup = FALSE
    /\ thr = [h \in Threads |-> [at |-> "idle", sig |-> NoObject, first |-> FALSE]]
    /\ pc = "outside"
    /\ cur = NoObject
    /\ fired = {}
    /\ last_fired = [tim |-> NoObject, time |-> NoTime, inpass |-> FALSE]
    /\ armed = {}
    /\ cancelled = {}
    /\ rearm = [t \in Timers |-> NoRearm]
    /\ owed = [t \in Timers |-> "no"]
    /\ raised = [s \in Signals |-> 0]
    /\ nops = 0
    /\ batch = {}
    /\ done = {}
    /\ order = <<>>
    /\ time_changed = FALSE
    /\ walive = {}
    /\ m_watched_fd = [w \in Watchers |-> NoFd]
    /\ m_events = [w \in Watchers |-> {}]
    /\ registered = [fd \in Fds |-> Unregistered]
    /\ provider_call = "none"


(* ------------------------- timer operations ---------------------------- *)
(* T is the record [st, tm, h] of all timers' m_state, all timers' m_time  *)
(* and the heap; each operation yields the record after the call.          *)

TimerRec == [st |-> m_state, tm |-> m_time, h |-> m_timer_heap]

\* mutant: a timer whose handler ran is removed and made Idle at once
unsetAlwaysRemove(T, t) ==
    IF T.st[t] # "Idle"
    THEN [T EXCEPT !.h = HeapRemove(T.st, T.tm, T.h, t), !.st[t] = "Idle"]
    ELSE T

\* mutant: the timer becomes Idle and stays in the heap
unsetNoRemove(T, t) ==
    IF T.st[t] \in {"TempUnset", "TempSet"}
    THEN [T EXCEPT !.st[t] = "TempUnset"]
    ELSE [T EXCEPT !.st[t] = "Idle"]

\* mutant: a timer marked due is left alone
unsetPendingOnly(T, t) ==
    IF T.st[t] \in {"TempUnset", "TempSet"}
    THEN [T EXCEPT !.st[t] = "TempUnset"]
    ELSE IF T.st[t] = "Pending"
         THEN [T EXCEPT !.h = HeapRemove(T.st, T.tm, T.h, t), !.st[t] = "Idle"]
         ELSE T

unset(T, t) ==
    IF T.st[t] \in {"TempUnset", "TempSet"}
    THEN [T EXCEPT !.st[t] = "TempUnset"]
    ELSE IF T.st[t] # "Idle"
         THEN [T EXCEPT !.h = HeapRemove(T.st, T.tm, T.h, t), !.st[t] = "Idle"]
         ELSE T

\* mutant: a timer whose handler ran keeps its state when it is armed
setAtKeepsTemp(T, t, time) ==
    LET tm1 == [T.tm EXCEPT ![t] = time]
    IN  IF T.st[t] \in {"TempUnset", "TempSet"}
        THEN [T EXCEPT !.tm = tm1]
        ELSE LET old_state == T.st[t]
                 st1 == [T.st EXCEPT ![t] = "Pending"]
             IN  IF old_state = "Idle"
                 THEN [st |-> st1, tm |-> tm1, h |-> HeapInsert(st1, tm1, T.h, t)]
                 ELSE [st |-> st1, tm |-> tm1, h |-> HeapFixup(st1, tm1, T.h, t)]

setAt(T, t, time) ==
    LET tm1 == [T.tm EXCEPT ![t] = time]
    IN  IF T.st[t] \in {"TempUnset", "TempSet"}
        THEN [T EXCEPT !.tm = tm1, !.st[t] = "TempSet"]
        ELSE LET old_state == T.st[t]
                 st1 == [T.st EXCEPT ![t] = "Pending"]
             IN  IF old_state = "Idle"
                 THEN [st |-> st1, tm |-> tm1, h |-> HeapInsert(st1, tm1, T.h, t)]
                 ELSE [st |-> st1, tm |-> tm1, h |-> HeapFixup(st1, tm1, T.h, t)]

setAfter(T, t, duration) == setAt(T, t, m_event_time + duration)

\* ~EventLoopTimer
DestroyTimer(T, t) ==
    IF T.st[t] # "Idle"
    THEN [T EXCEPT !.h = HeapRemove(T.st, T.tm, T.h, t)]
    ELSE T

(* ------------------------ async-signal lists --------------------------- *)

Remove(list, s) == SelectSeq(list, LAMBDA x : x # s)

Occurrences(list, s) == Cardinality({i \in 1..Len(list) : list[i] = s})

(* --------------------------- loop phases ------------------------------- *)

prepare_timers_for_dispatch(T, now) ==
    LET due == FindAllLesserOrEqual(T.tm, T.h, now, 1)
    IN  [T EXCEPT !.st = [t \in Timers |-> IF t \in due THEN "Dispatch" ELSE T.st[t]]]

\* mutant: a Pending root that is due fires too
TimerToDispatchDue(T) ==
    LET tim == HeapFirst(T.h)
    IN  IF tim # NoObject
           /\ (T.st[tim] = "Dispatch"
               \/ (T.st[tim] = "Pending" /\ T.tm[tim] <= m_event_time))
        THEN tim ELSE NoObject

\* mutant: the loop of dispatch_timers ends after the first handler
TimerToDispatchOnce(T) ==
    LET tim == HeapFirst(T.h)
    IN  IF tim # NoObject /\ T.st[tim] = "Dispatch" /\ fired = {}
        THEN tim ELSE NoObject

\* the timer the next round of the loop in dispatch_timers fires, if any
TimerToDispatch(T) ==
    LET tim == HeapFirst(T.h)
    IN  IF tim # NoObject /\ T.st[tim] = "Dispatch" THEN tim ELSE NoObject

\* mutant: the timer is marked TempSet
MarkRunningSet(T, tim) ==
    LET st1 == [T.st EXCEPT ![tim] = "TempSet"]
    IN  [T EXCEPT !.st = st1, !.h = HeapFixup(st1, T.tm, T.h, tim)]

\* the state change of dispatch_timers before it calls handleTimerExpired
MarkRunning(T, tim) ==
    LET st1 == [T.st EXCEPT ![tim] = "TempUnset"]
    IN  [T EXCEPT !.st = st1, !.h = HeapFixup(st1, T.tm, T.h, tim)]

\* mutant: a promoted TempSet timer stays at the root
RECURSIVE prepare_timers_for_wait_nofixup(_)
prepare_timers_for_wait_nofixup(T) ==
    LET tim == HeapFirst(T.h)
    IN  IF tim = NoObject
        THEN [T |-> T, first_time |-> TimeMax]
        ELSE IF T.st[tim] = "TempUnset"
             THEN prepare_timers_for_wait_nofixup(
                    [T EXCEPT !.h = HeapRemove(T.st, T.tm, T.h, tim),
                              !.st[tim] = "Idle"])
             ELSE IF T.st[tim] = "TempSet"
                  THEN prepare_timers_for_wait_nofixup(
                         [T EXCEPT !.st[tim] = "Pending"])
                  ELSE [T |-> T, first_time |-> T.tm[tim]]

\* yields the timers after the loop of prepare_timers_for_wait and first_time
RECURSIVE prepare_timers_for_wait(_)
prepare_timers_for_wait(T) ==
    LET tim == HeapFirst(T.h)
    IN  IF tim = NoObject
        THEN [T |-> T, first_time |-> TimeMax]
        ELSE IF T.st[tim] = "TempUnset"
             THEN prepare_timers_for_wait(
                    [T EXCEPT !.h = HeapRemove(T.st, T.tm, T.h, tim),
                              !.st[tim] = "Idle"])
             ELSE IF T.st[tim] = "TempSet"
                  THEN LET st1 == [T.st EXCEPT ![tim] = "Pending"]
                       IN  prepare_timers_for_wait(
                             [T EXCEPT !.st = st1,
                                       !.h = HeapFixup(st1, T.tm, T.h, tim)])
                  ELSE [T |-> T, first_time |-> T.tm[tim]]

\* mutant: only a later deadline counts as a change
TimeChangedLater(first_time, last_wait_time) == first_time > last_wait_time

\* time_changed of prepare_timers_for_wait
TimeChanged(first_time, last_wait_time) == first_time # last_wait_time

SetTimers(T) ==
    /\ m_state' = T.st
    /\ m_time' = T.tm
    /\ m_timer_heap' = T.h

HandlerPcs == {"timer_handler", "fd_handler", "async_handler"}
OutsidePcs == {"outside", "returned"}
\* the loop thread is executing user code
InUser == pc \in HandlerPcs \cup OutsidePcs

\* the start of an iteration of the loop in run(), up to dispatch_timers
IterationBegin(now) ==
    /\ m_event_time' = now
    /\ SetTimers(prepare_timers_for_dispatch(TimerRec, now))
    /\ pc' = "dispatch_timers"
    /\ cur' = NoObject
    /\ fired' = {}
    /\ armed' = {}
    /\ owed' = [t \in Timers |->
                 IF rearm[t].time = NoTime \/ rearm[t].time > now THEN "no"
                 ELSE IF rearm[t].intact THEN "intact" ELSE "touched"]
    /\ rearm' = [t \in Timers |-> NoRearm]
    /\ last_fired' = [last_fired EXCEPT !.inpass = FALSE]
    /\ time_changed' = FALSE
    /\ UNCHANGED <<alive, m_stop, m_last_wait_time, cancelled>>

\* run() is called
Run ==
    /\ pc \in OutsidePcs
    /\ IF m_stop
       THEN /\ pc' = "returned"
            /\ UNCHANGED <<timerVars, loopVars, cur, timerHist, time_changed>>
       ELSE \E now \in ClockTimes : now >= m_event_time /\ IterationBegin(now)
    /\ UNCHANGED <<asyncVars, thr>>
    /\ UNCHANGED nops
    /\ UNCHANGED asyncHist
    /\ UNCHANGED fdVars

\* one round of the loop in dispatch_timers, or its end and return of true
DispatchTimers ==
    /\ pc = "dispatch_timers"
    /\ LET tim == TimerToDispatch(TimerRec)
       IN  IF tim # NoObject
           THEN /\ SetTimers(MarkRunning(TimerRec, tim))
                /\ pc' = "timer_handler"
                /\ cur' = tim
                /\ fired' = fired \cup {tim}
                /\ last_fired' = [tim |-> tim, time |-> m_time[tim], inpass |-> TRUE]
           ELSE /\ pc' = "dispatch_events"
                /\ cur' = NoObject
                /\ UNCHANGED <<m_state, m_time, m_timer_heap, fired, last_fired>>
    /\ UNCHANGED <<alive, loopVars, asyncVars, thr, armed, cancelled, rearm, owed>>
    /\ UNCHANGED nops
    /\ UNCHANGED asyncHist
    /\ UNCHANGED fdVars
    /\ UNCHANGED time_changed

\* mutant: m_stop is not looked at
TimerHandlerReturnNoStop ==
    /\ pc = "timer_handler"
    /\ pc' = "dispatch_timers"
    /\ cur' = NoObject
    /\ UNCHANGED <<timerVars, loopVars, asyncVars, thr, timerHist>>
    /\ UNCHANGED nops
    /\ UNCHANGED asyncHist
    /\ UNCHANGED fdVars
    /\ UNCHANGED time_changed

\* handleTimerExpired returns to dispatch_timers
TimerHandlerReturn ==
    /\ pc = "timer_handler"
    /\ pc' = IF m_stop THEN "returned" ELSE "dispatch_timers"
    /\ cur' = NoObject
    /\ UNCHANGED <<timerVars, loopVars, asyncVars, thr, timerHist>>
    /\ UNCHANGED nops
    /\ UNCHANGED asyncHist
    /\ UNCHANGED fdVars
    /\ UNCHANGED time_changed

\* run() after dispatchEvents returned true: prepare_timers_for_wait, then
\* waitForEvents
EnterWait ==
    LET r == prepare_timers_for_wait(TimerRec)
    IN  /\ SetTimers(r.T)
        /\ m_last_wait_time' = r.first_time
        /\ time_changed' = TimeChanged(r.first_time, m_last_wait_time)
        /\ pc' = "wait"
        /\ cur' = NoObject
        /\ UNCHANGED <<alive, m_stop, m_event_time, timerHist>>

\* dispatchEvents calls the handler of a watcher whose fd is ready
FdHandlerInvoke ==
    /\ pc = "dispatch_events"
    /\ pc' = "fd_handler"
    /\ UNCHANGED <<timerVars, loopVars, asyncVars, thr, cur, timerHist>>
    /\ UNCHANGED nops
    /\ UNCHANGED asyncHist
    /\ UNCHANGED fdVars
    /\ UNCHANGED time_changed

FdHandlerReturn ==
    /\ pc = "fd_handler"
    /\ pc' = IF m_stop THEN "returned" ELSE "dispatch_events"
    /\ UNCHANGED <<timerVars, loopVars, asyncVars, thr, cur, timerHist>>
    /\ UNCHANGED nops
    /\ UNCHANGED asyncHist
    /\ UNCHANGED fdVars
    /\ UNCHANGED time_changed

\* dispatch_async_signals is entered while another thread holds the mutex:
\* the loop thread blocks in the constructor of the lock
AsyncBlock ==
    /\ pc = "dispatch_events"
    /\ mutex # "free"
    /\ pc' = "async_lock"
    /\ UNCHANGED <<timerVars, loopVars, asyncVars, thr, cur, timerHist>>
    /\ UNCHANGED nops
    /\ UNCHANGED asyncHist
    /\ UNCHANGED fdVars
    /\ UNCHANGED time_changed

\* dispatch_async_signals up to the loop over the batch
AsyncBegin ==
    /\ pc \in {"dispatch_events", "async_lock"}
    /\ mutex = "free"
    /\ IF m_pending_async_list = <<>>
       THEN /\ EnterWait
            /\ UNCHANGED <<asyncVars>>
            /\ UNCHANGED batch
       ELSE /\ m_dispatch_async_list' = m_pending_async_list
            /\ m_pending_async_list' = <<>>
            /\ mutex' = "loop"
            /\ pc' = "async"
            /\ batch' = {m_pending_async_list[i] : i \in 1..Len(m_pending_async_list)}
            /\ UNCHANGED <<timerVars, loopVars, removed, wakeup, raised, cur, timerHist,
                           time_changed>>
    /\ UNCHANGED thr
    /\ UNCHANGED nops
    /\ UNCHANGED <<done, order>>
    /\ UNCHANGED fdVars

\* mutant: the mutex is not released before the handler is called
AsyncNextHoldsLock ==
    /\ pc = "async"
    /\ mutex = "loop"
    /\ mutex' = IF m_dispatch_async_list = <<>> THEN "free" ELSE "loop"
    /\ IF m_dispatch_async_list = <<>>
       THEN /\ EnterWait
            /\ batch' = {}
            /\ done' = {}
            /\ UNCHANGED <<m_pending_async_list, m_dispatch_async_list, removed,
                           wakeup, raised, order>>
       ELSE LET node == Head(m_dispatch_async_list)
            IN  /\ m_dispatch_async_list' = Tail(m_dispatch_async_list)
                /\ removed' = removed \cup {node}
                /\ raised' = [raised EXCEPT ![node] = 0]
                /\ cur' = node
                /\ pc' = "async_handler"
                /\ done' = done \cup {node}
                /\ order' = Remove(order, node)
                /\ UNCHANGED <<timerVars, loopVars, m_pending_async_list, wakeup,
                               timerHist, batch, time_changed>>
    /\ UNCHANGED thr
    /\ UNCHANGED nops
    /\ UNCHANGED fdVars

\* one round of the loop in dispatch_async_signals, up to the handler call
AsyncNext ==
    /\ pc = "async"
    /\ mutex = "loop"
    /\ mutex' = "free"
    /\ IF m_dispatch_async_list = <<>>
       THEN /\ EnterWait
            /\ batch' = {}
            /\ done' = {}
            /\ UNCHANGED <<m_pending_async_list, m_dispatch_async_list, removed,
                           wakeup, raised, order>>
       ELSE LET node == Head(m_dispatch_async_list)
            IN  /\ m_dispatch_async_list' = Tail(m_dispatch_async_list)
                /\ removed' = removed \cup {node}
                /\ raised' = [raised EXCEPT ![node] = 0]
                /\ cur' = node
                /\ pc' = "async_handler"
                /\ done' = done \cup {node}
                /\ order' = Remove(order, node)
                /\ UNCHANGED <<timerVars, loopVars, m_pending_async_list, wakeup,
                               timerHist, batch, time_changed>>
    /\ UNCHANGED thr
    /\ UNCHANGED nops
    /\ UNCHANGED fdVars

\* mutant: no snapshot; the nodes queued meanwhile join the list being drained
AsyncHandlerReturnRefill ==
    /\ pc = "async_handler"
    /\ IF m_stop
       THEN /\ pc' = "returned"
            /\ batch' = {}
            /\ done' = {}
            /\ UNCHANGED <<mutex, m_pending_async_list, m_dispatch_async_list>>
       ELSE /\ mutex = "free"
            /\ mutex' = "loop"
            /\ pc' = "async"
            /\ m_dispatch_async_list' = m_dispatch_async_list \o m_pending_async_list
            /\ m_pending_async_list' = <<>>
            /\ UNCHANGED <<batch, done>>
    /\ cur' = NoObject
    /\ UNCHANGED <<timerVars, loopVars, removed, wakeup, raised, thr, timerHist, order>>
    /\ UNCHANGED nops
    /\ UNCHANGED fdVars
    /\ UNCHANGED time_changed

\* mutant: dispatch_async_signals returns after the first handler, whether
\* the loop was stopped or not
AsyncHandlerReturnQuits ==
    /\ pc = "async_handler"
    /\ pc' = "returned"
    /\ batch' = {}
    /\ done' = {}
    /\ cur' = NoObject
    /\ UNCHANGED <<timerVars, loopVars, asyncVars, thr, timerHist, order>>
    /\ UNCHANGED nops
    /\ UNCHANGED fdVars
    /\ UNCHANGED time_changed

\* m_handler returns to dispatch_async_signals
AsyncHandlerReturn ==
    /\ pc = "async_handler"
    /\ IF m_stop
       THEN /\ pc' = "returned"
            /\ batch' = {}
            /\ done' = {}
            /\ UNCHANGED mutex
       ELSE /\ mutex = "free"
            /\ mutex' = "loop"
            /\ pc' = "async"
            /\ UNCHANGED <<batch, done>>
    /\ cur' = NoObject
    /\ UNCHANGED <<timerVars, loopVars, m_pending_async_list, m_dispatch_async_list,
                   removed, wakeup, raised, thr, timerHist, order>>
    /\ UNCHANGED nops
    /\ UNCHANGED fdVars
    /\ UNCHANGED time_changed

\* waitForEvents returns and the loop in run() starts over
WaitReturn ==
    /\ pc = "wait"
    /\ \E now \in ClockTimes : now >= m_event_time /\ IterationBegin(now)
    /\ wakeup' = FALSE
    /\ UNCHANGED <<m_pending_async_list, m_dispatch_async_list, removed, mutex,
                   raised, thr>>
    /\ UNCHANGED nops
    /\ UNCHANGED asyncHist
    /\ UNCHANGED fdVars

(* ------------------- user code on the loop thread --------------------- *)

\* EventLoopTimer::EventLoopTimer
TimerNew(t) ==
    /\ InUser
    /\ t \notin alive
    /\ alive' = alive \cup {t}
    /\ m_state' = [m_state EXCEPT ![t] = "Idle"]
    /\ m_time' = [m_time EXCEPT ![t] = 0]
    /\ fired' = fired \ {t}
    /\ armed' = armed \ {t}
    /\ UNCHANGED <<m_timer_heap, loopVars, asyncVars, thr, pc, cur, last_fired,
                   cancelled, rearm, owed>>
    /\ UNCHANGED nops
    /\ UNCHANGED asyncHist
    /\ UNCHANGED fdVars
    /\ UNCHANGED time_changed

\* the history of a call that arms timer t with deadline time
NoteArmed(t, time) ==
    /\ armed' = armed \cup {t}
    /\ cancelled' = cancelled \ {t}
    /\ rearm' = [rearm EXCEPT ![t] =
                    IF pc = "timer_handler" /\ cur = t
                    THEN [time |-> time, intact |-> TRUE]
                    ELSE [@ EXCEPT !.intact = FALSE]]
    /\ owed' = [owed EXCEPT ![t] = IF @ = "no" THEN "no" ELSE "touched"]
    /\ UNCHANGED <<fired, last_fired>>

UserSetAt(t, time) ==
    /\ InUser
    /\ Count
    /\ UNCHANGED asyncHist
    /\ t \in alive
    /\ SetTimers(setAt(TimerRec, t, time))
    /\ NoteArmed(t, time)
    /\ UNCHANGED <<alive, loopVars, asyncVars, thr, pc, cur>>
    /\ UNCHANGED fdVars
    /\ UNCHANGED time_changed

UserSetAfter(t, duration) ==
    /\ InUser
    /\ Count
    /\ UNCHANGED asyncHist
    /\ t \in alive
    /\ m_event_time + duration <= TimeMax
    /\ SetTimers(setAfter(TimerRec, t, duration))
    /\ NoteArmed(t, m_event_time + duration)
    /\ UNCHANGED <<alive, loopVars, asyncVars, thr, pc, cur>>
    /\ UNCHANGED fdVars
    /\ UNCHANGED time_changed

\* the history of a call that cancels timer t
NoteCancelled(t) ==
    /\ cancelled' = cancelled \cup {t}
    /\ rearm' = [rearm EXCEPT ![t] = NoRearm]
    /\ owed' = [owed EXCEPT ![t] = "no"]
    /\ UNCHANGED <<fired, last_fired, armed>>

UserUnset(t) ==
    /\ InUser
    /\ Count
    /\ UNCHANGED asyncHist
    /\ t \in alive
    /\ SetTimers(unset(TimerRec, t))
    /\ NoteCancelled(t)
    /\ UNCHANGED <<alive, loopVars, asyncVars, thr, pc, cur>>
    /\ UNCHANGED fdVars
    /\ UNCHANGED time_changed

\* user code calls setAt(time) and then unset() on timer t
UserSetAtUnset(t, time) ==
    /\ InUser
    /\ Count2
    /\ UNCHANGED asyncHist
    /\ t \in alive
    /\ SetTimers(unset(setAt(TimerRec, t, time), t))
    /\ armed' = armed \cup {t}
    /\ cancelled' = cancelled \cup {t}
    /\ rearm' = [rearm EXCEPT ![t] = NoRearm]
    /\ owed' = [owed EXCEPT ![t] = "no"]
    /\ UNCHANGED <<fired, last_fired>>
    /\ UNCHANGED <<alive, loopVars, asyncVars, thr, pc, cur>>
    /\ UNCHANGED fdVars
    /\ UNCHANGED time_changed

\* the timer object is destroyed; its fields are gone with it
UserDestroy(t) ==
    /\ InUser
    /\ Count
    /\ UNCHANGED asyncHist
    /\ t \in alive
    /\ alive' = alive \ {t}
    /\ LET T == DestroyTimer(TimerRec, t)
       IN  /\ m_timer_heap' = T.h
           /\ m_state' = [T.st EXCEPT ![t] = "Idle"]
           /\ m_time' = [T.tm EXCEPT ![t] = 0]
    /\ NoteCancelled(t)
    /\ cur' = IF pc = "timer_handler" /\ cur = t THEN NoObject ELSE cur
    /\ UNCHANGED <<loopVars, asyncVars, thr, pc>>
    /\ UNCHANGED fdVars
    /\ UNCHANGED time_changed

\* user code calls unset() on timer t and then destroys it
UserUnsetDestroy(t) ==
    /\ InUser
    /\ Count2
    /\ UNCHANGED asyncHist
    /\ t \in alive
    /\ alive' = alive \ {t}
    /\ LET T == DestroyTimer(unset(TimerRec, t), t)
       IN  /\ m_timer_heap' = T.h
           /\ m_state' = [T.st EXCEPT ![t] = "Idle"]
           /\ m_time' = [T.tm EXCEPT ![t] = 0]
    /\ NoteCancelled(t)
    /\ cur' = IF pc = "timer_handler" /\ cur = t THEN NoObject ELSE cur
    /\ UNCHANGED <<loopVars, asyncVars, thr, pc>>
    /\ UNCHANGED fdVars
    /\ UNCHANGED time_changed

\* EventLoop::stop
UserStop ==
    /\ InUser
    /\ Count
    /\ UNCHANGED asyncHist
    /\ m_stop' = TRUE
    /\ UNCHANGED <<timerVars, m_event_time, m_last_wait_time, asyncVars, thr,
                   pc, cur, timerHist>>
    /\ UNCHANGED fdVars
    /\ UNCHANGED time_changed

(* --------------------------- async signals ----------------------------- *)

\* the history of one more signal() call: none, one, several
Raise(n) == IF n = 0 THEN 1 ELSE 2

\* the history of a signal() call on s that left the list pending behind
Queued(pending, s) ==
    IF pending # m_pending_async_list THEN Append(order, s) ELSE order

\* mutant: the node is queued whether or not it is removed
signalAlways(s) ==
    [pending |-> Append(m_pending_async_list, s),
     removed |-> removed \ {s},
     inserted_first |-> (m_pending_async_list = <<>>)]

\* mutant: the node is linked at the head of the pending list
signalAtHead(s) ==
    IF s \in removed
    THEN [pending |-> <<s>> \o m_pending_async_list,
          removed |-> removed \ {s},
          inserted_first |-> (m_pending_async_list = <<>>)]
    ELSE [pending |-> m_pending_async_list,
          removed |-> removed,
          inserted_first |-> FALSE]

\* mutant: inserted_first stays false
signalNoFirst(s) ==
    IF s \in removed
    THEN [pending |-> Append(m_pending_async_list, s),
          removed |-> removed \ {s},
          inserted_first |-> FALSE]
    ELSE [pending |-> m_pending_async_list,
          removed |-> removed,
          inserted_first |-> FALSE]

\* the body of signal() under the mutex: the lists and markers after it and
\* inserted_first
signal(s) ==
    IF s \in removed
    THEN [pending |-> Append(m_pending_async_list, s),
          removed |-> removed \ {s},
          inserted_first |-> (m_pending_async_list = <<>>)]
    ELSE [pending |-> m_pending_async_list,
          removed |-> removed,
          inserted_first |-> FALSE]

\* signal() called by user code on the loop thread
UserSignal(s) ==
    /\ InUser
    /\ Count
    /\ mutex = "free"
    /\ LET r == signal(s)
       IN  /\ m_pending_async_list' = r.pending
           /\ removed' = r.removed
           /\ wakeup' = (wakeup \/ r.inserted_first)
           /\ order' = Queued(r.pending, s)
    /\ UNCHANGED <<batch, done>>
    /\ raised' = [raised EXCEPT ![s] = Raise(@)]
    /\ UNCHANGED <<timerVars, loopVars, m_dispatch_async_list, mutex, thr, pc,
                   cur, timerHist>>
    /\ UNCHANGED fdVars
    /\ UNCHANGED time_changed

\* L is the record [pending, dispatch, removed] of the two lists and the
\* removed markers
AsyncRec ==
    [pending |-> m_pending_async_list, dispatch |-> m_dispatch_async_list,
     removed |-> removed]

SetLists(L) ==
    /\ m_pending_async_list' = L.pending
    /\ m_dispatch_async_list' = L.dispatch
    /\ removed' = L.removed

\* mutant: the node is unlinked and not marked removed
resetNoMark(L, s) ==
    IF s \notin L.removed
    THEN [L EXCEPT !.pending = Remove(L.pending, s),
                   !.dispatch = Remove(L.dispatch, s)]
    ELSE L

\* the body of reset() under the mutex
reset(L, s) ==
    IF s \notin L.removed
    THEN [pending |-> Remove(L.pending, s),
          dispatch |-> Remove(L.dispatch, s),
          removed |-> L.removed \cup {s}]
    ELSE L

\* ~EventLoopAsyncSignal
DestroySignal(L, s) == reset(L, s)

\* reset() called by user code on the loop thread
UserReset(s) ==
    /\ InUser
    /\ Count
    /\ order' = Remove(order, s)
    /\ UNCHANGED <<batch, done>>
    /\ mutex = "free"
    /\ SetLists(reset(AsyncRec, s))
    /\ raised' = [raised EXCEPT ![s] = 0]
    /\ UNCHANGED <<timerVars, loopVars, mutex, wakeup, thr, pc, cur, timerHist>>
    /\ UNCHANGED fdVars
    /\ UNCHANGED time_changed

\* user code calls reset() on signal s and then destroys it; the signal
\* object of that name can be constructed anew
UserResetDestroy(s) ==
    /\ InUser
    /\ Count2
    /\ order' = Remove(order, s)
    /\ UNCHANGED <<batch, done>>
    /\ mutex = "free"
    /\ SetLists(DestroySignal(reset(AsyncRec, s), s))
    /\ raised' = [raised EXCEPT ![s] = 0]
    /\ UNCHANGED <<timerVars, loopVars, mutex, wakeup, thr, pc, cur, timerHist>>
    /\ UNCHANGED fdVars
    /\ UNCHANGED time_changed

(* ----------------------------- fd watchers ----------------------------- *)
(* F is the record [fd, ev, reg, call] of all watchers' m_watched_fd and   *)
(* m_events, the provider's table and the provider call made; each         *)
(* operation yields the record after the call.                             *)

FdRec ==
    [fd |-> m_watched_fd, ev |-> m_events, reg |-> registered, call |-> "none"]

SetFd(F) ==
    /\ m_watched_fd' = F.fd
    /\ m_events' = F.ev
    /\ registered' = F.reg
    /\ provider_call' = F.call

\* EventProviderFd::initFdImpl
initFdImpl(F, fd, events) ==
    [F EXCEPT !.reg[fd] = [on |-> TRUE, mask |-> events], !.call = "initFdImpl"]

\* EventProviderFd::updateEventsImpl
updateEventsImpl(F, fd, events) ==
    [F EXCEPT !.reg[fd] = [on |-> TRUE, mask |-> events], !.call = "updateEventsImpl"]

\* EventProviderFd::resetImpl
resetImpl(F, fd) ==
    [F EXCEPT !.reg[fd] = Unregistered, !.call = "resetImpl"]

hasFd(F, w) == F.fd[w] >= 0

initFd(F, w, fd, events) ==
    LET F1 == initFdImpl(F, fd, events)
    IN  [F1 EXCEPT !.fd[w] = fd, !.ev[w] = events]

\* mutant: the provider is told, the watcher's mask is not updated
updateEventsStale(F, w, events) ==
    IF events # F.ev[w]
    THEN updateEventsImpl(F, F.fd[w], events)
    ELSE F

updateEvents(F, w, events) ==
    IF events # F.ev[w]
    THEN LET F1 == updateEventsImpl(F, F.fd[w], events)
         IN  [F1 EXCEPT !.ev[w] = events]
    ELSE F

\* mutant: the fd is forgotten and stays registered with the provider
resetFdWatcherKeepsReg(F, w) ==
    IF hasFd(F, w)
    THEN [F EXCEPT !.fd[w] = NoFd, !.ev[w] = {}]
    ELSE F

\* mutant: the provider is told and the watcher keeps its fd
resetFdWatcherKeepsFd(F, w) ==
    IF hasFd(F, w)
    THEN resetImpl(F, F.fd[w])
    ELSE F

\* EventLoopFdWatcher::reset
resetFdWatcher(F, w) ==
    IF hasFd(F, w)
    THEN LET F1 == resetImpl(F, F.fd[w])
         IN  [F1 EXCEPT !.fd[w] = NoFd, !.ev[w] = {}]
    ELSE F

\* ~EventLoopFdWatcher
DestroyFdWatcher(F, w) ==
    IF hasFd(F, w) THEN resetImpl(F, F.fd[w]) ELSE F

\* EventLoopFdWatcher::EventLoopFdWatcher
FdNew(w) ==
    /\ InUser
    /\ w \notin walive
    /\ walive' = walive \cup {w}
    /\ m_watched_fd' = [m_watched_fd EXCEPT ![w] = NoFd]
    /\ m_events' = [m_events EXCEPT ![w] = {}]
    /\ UNCHANGED <<registered, provider_call>>
    /\ UNCHANGED <<timerVars, loopVars, asyncVars, thr, pc, cur, timerHist,
                   asyncHist, time_changed, nops>>

\* initFd called by user code with an fd no watcher is registered for
FdInit(w, fd, events) ==
    /\ InUser
    /\ Count
    /\ w \in walive
    /\ m_watched_fd[w] = NoFd
    /\ ~registered[fd].on
    /\ SetFd(initFd(FdRec, w, fd, events))
    /\ UNCHANGED <<walive, timerVars, loopVars, asyncVars, thr, pc, cur,
                   timerHist, asyncHist, time_changed>>

\* updateEvents called by user code on a watcher that has an fd
FdUpdate(w, events) ==
    /\ InUser
    /\ Count
    /\ w \in walive
    /\ m_watched_fd[w] >= 0
    /\ SetFd(updateEvents(FdRec, w, events))
    /\ UNCHANGED <<walive, timerVars, loopVars, asyncVars, thr, pc, cur,
                   timerHist, asyncHist, time_changed>>

FdReset(w) ==
    /\ InUser
    /\ Count
    /\ w \in walive
    /\ SetFd(resetFdWatcher(FdRec, w))
    /\ UNCHANGED <<walive, timerVars, loopVars, asyncVars, thr, pc, cur,
                   timerHist, asyncHist, time_changed>>

\* the watcher object is destroyed; its fields are gone with it
FdDestroy(w) ==
    /\ InUser
    /\ Count
    /\ w \in walive
    /\ walive' = walive \ {w}
    /\ LET F == DestroyFdWatcher(FdRec, w)
       IN  SetFd([F EXCEPT !.fd[w] = NoFd, !.ev[w] = {}])
    /\ UNCHANGED <<timerVars, loopVars, asyncVars, thr, pc, cur, timerHist,
                   asyncHist, time_changed>>

\* user code calls reset() on watcher w and then destroys it
FdResetDestroy(w) ==
    /\ InUser
    /\ Count2
    /\ w \in walive
    /\ walive' = walive \ {w}
    /\ LET F1 == resetFdWatcher(FdRec, w)
           F2 == DestroyFdWatcher([F1 EXCEPT !.call = "none"], w)
       IN  SetFd([F2 EXCEPT !.fd[w] = NoFd, !.ev[w] = {}])
    /\ UNCHANGED <<timerVars, loopVars, asyncVars, thr, pc, cur, timerHist,
                   asyncHist, time_changed>>

\* another thread calls signal(): it takes the mutex
ThreadLock(h, s) ==
    /\ thr[h].at = "idle"
    /\ mutex = "free"
    /\ mutex' = "thread"
    /\ thr' = [thr EXCEPT ![h] = [at |-> "locked", sig |-> s, first |-> FALSE]]
    /\ UNCHANGED <<timerVars, loopVars, m_pending_async_list,
                   m_dispatch_async_list, removed, wakeup, raised, pc, cur,
                   timerHist>>
    /\ UNCHANGED nops
    /\ UNCHANGED asyncHist
    /\ UNCHANGED fdVars
    /\ UNCHANGED time_changed

\* the thread queues the node if it is removed, and releases the mutex
ThreadInsert(h) ==
    /\ thr[h].at = "locked"
    /\ LET r == signal(thr[h].sig)
       IN  /\ m_pending_async_list' = r.pending
           /\ removed' = r.removed
           /\ thr' = [thr EXCEPT ![h].at = "unlocked", ![h].first = r.inserted_first]
           /\ order' = Queued(r.pending, thr[h].sig)
    /\ raised' = [raised EXCEPT ![thr[h].sig] = Raise(@)]
    /\ mutex' = "free"
    /\ UNCHANGED <<timerVars, loopVars, m_dispatch_async_list, wakeup, pc, cur,
                   timerHist>>
    /\ UNCHANGED nops
    /\ UNCHANGED <<batch, done>>
    /\ UNCHANGED fdVars
    /\ UNCHANGED time_changed

\* the thread calls signalToCheckAsyncSignals if it inserted the first node
ThreadWakeup(h) ==
    /\ thr[h].at = "unlocked"
    /\ wakeup' = (wakeup \/ thr[h].first)
    /\ thr' = [thr EXCEPT ![h] = [at |-> "idle", sig |-> NoObject, first |-> FALSE]]
    /\ UNCHANGED <<timerVars, loopVars, m_pending_async_list,
                   m_dispatch_async_list, removed, mutex, raised, pc, cur,
                   timerHist>>
    /\ UNCHANGED nops
    /\ UNCHANGED asyncHist
    /\ UNCHANGED fdVars
    /\ UNCHANGED time_changed

(* --------------------------- specifications ---------------------------- *)

\* run() from one iteration to the next
IterationStep ==
    \/ Run
    \/ DispatchTimers
    \/ WaitReturn

\* dispatchEvents
EventStep ==
    \/ FdHandlerInvoke
    \/ FdHandlerReturn
    \/ AsyncBegin
    \/ AsyncNext
    \/ AsyncHandlerReturn

LoopStep == IterationStep \/ TimerHandlerReturn \/ EventStep

TimerStep ==
    \/ \E t \in Timers : TimerNew(t)
    \/ \E t \in Timers, time \in Times : UserSetAt(t, time)
    \/ \E t \in Timers, duration \in Durations : UserSetAfter(t, duration)
    \/ \E t \in Timers : UserUnset(t)
    \/ \E t \in Timers : UserDestroy(t)
    \/ \E t \in Timers, time \in Times : UserSetAtUnset(t, time)

SignalStep ==
    \/ \E s \in Signals : UserSignal(s)
    \/ \E s \in Signals : UserReset(s)

\* the steps of the other threads, and the step of the loop thread that
\* only another thread's hold of the mutex makes possible
ThreadStep ==
    \/ \E h \in Threads, s \in Signals : ThreadLock(h, s)
    \/ \E h \in Threads : ThreadInsert(h)
    \/ \E h \in Threads : ThreadWakeup(h)
    \/ AsyncBlock

FdStep ==
    \/ \E w \in Watchers : FdNew(w)
    \/ \E w \in Watchers, fd \in Fds, events \in EventMasks : FdInit(w, fd, events)
    \/ \E w \in Watchers, events \in EventMasks : FdUpdate(w, events)
    \/ \E w \in Watchers : FdReset(w)
    \/ \E w \in Watchers : FdDestroy(w)

\* unset() or reset() on an object and then its destructor
PairStep ==
    \/ \E t \in Timers : UserUnsetDestroy(t)
    \/ \E s \in Signals : UserResetDestroy(s)
    \/ \E w \in Watchers : FdResetDestroy(w)

Next == LoopStep \/ UserStop \/ TimerStep \/ SignalStep

Spec == Init /\ [][Next]_vars

\* the loop thread and the threads that signal it.  No timer is constructed,
\* so no timer's handler is there to return from
NextAsync == IterationStep \/ EventStep \/ UserStop \/ SignalStep \/ ThreadStep

SpecAsync == Init /\ [][NextAsync]_vars

\* the loop thread with timers, signals and fd watchers
NextObjects == Next \/ FdStep \/ PairStep

SpecObjects == Init /\ [][NextObjects]_vars

\* the loop thread with fd watchers only: no timer fires and no signal is
\* queued
NextFd ==
    \/ IterationStep
    \/ FdHandlerInvoke
    \/ FdHandlerReturn
    \/ AsyncBegin
    \/ UserStop
    \/ FdStep
    \/ \E w \in Watchers : FdResetDestroy(w)

SpecFd == Init /\ [][NextFd]_vars

\* The loop thread keeps running: run() is called, a handler returns, a phase
\* that is ready or waits for the mutex goes on; a thread inside signal()
\* goes on; and a wait returns once the provider's wakeup was requested.  A
\* wait without a wakeup, and the arrival of fd events, are left to chance;
\* the provider does not call fd handlers for ever without calling
\* dispatch_async_signals.
FairAsync ==
    /\ WF_vars(Run)
    /\ WF_vars(DispatchTimers)
    /\ WF_vars(FdHandlerReturn)
    /\ SF_vars(AsyncBlock)
    /\ SF_vars(AsyncBegin)
    /\ WF_vars(AsyncNext)
    /\ SF_vars(AsyncHandlerReturn)
    /\ WF_vars(WaitReturn /\ wakeup)
    /\ \A h \in Threads : WF_vars(ThreadInsert(h)) /\ WF_vars(ThreadWakeup(h))

SpecAsyncLive == SpecAsync /\ FairAsync

(* ------------------------------ claims --------------------------------- *)

\* the loop thread goes from dispatch_timers into a timer's handler
Fires == pc = "dispatch_timers" /\ pc' = "timer_handler"

\* positions of the loop thread in an iteration whose dispatch_timers returned true
AfterPassPcs == {"dispatch_events", "fd_handler", "async", "async_handler", "wait"}

InHeap(t) == t \in HeapSet(m_timer_heap)

\* C1: a timer never fires early: the deadline a timer had when its handler
\* was invoked is at most the event time of that iteration (and so of every
\* later one).
C1_NeverEarly == last_fired.time <= m_event_time

\* a handler runs for a timer that its own handler re-armed in the iteration
\* before, at an event time the clock had to advance to
C1_Witness ==
    /\ pc = "timer_handler"
    /\ cur # NoObject
    /\ owed[cur] = "intact"
    /\ last_fired.time = m_event_time
    /\ m_event_time > 0

\* C2 as stated: of two timers with distinct deadlines whose handlers are
\* both invoked during run(), the one with the smaller deadline is invoked
\* first, however and whenever they were armed.
C2_OrderAlways ==
    [][Fires /\ last_fired.tim \notin {NoObject, cur'}
        => last_fired.time <= last_fired'.time]_vars

\* C2 amended: within one dispatch pass the handlers are invoked in
\* nondecreasing order of the deadlines the timers have when they fire.
C2_OrderInPass ==
    [][Fires /\ last_fired.inpass => last_fired.time <= last_fired'.time]_vars

\* two timers with distinct deadlines have fired in one pass
C2_Witness ==
    /\ pc = "timer_handler"
    /\ cur # NoObject
    /\ \E a \in (fired \cap alive) \ armed : a # cur /\ m_time[a] < m_time[cur]

MinDeadline ==
    IF m_timer_heap = <<>>
    THEN TimeMax
    ELSE CHOOSE d \in Times :
            /\ \E t \in HeapSet(m_timer_heap) : m_time[t] = d
            /\ \A t \in HeapSet(m_timer_heap) : d <= m_time[t]

\* C3: on entry to the provider's wait every timer in the heap is Pending
\* and the deadline handed to the wait is the least deadline of the timers
\* in the heap, or Time::max() when the heap is empty.
C3_WaitInv ==
    pc = "wait" =>
        /\ \A t \in HeapSet(m_timer_heap) : m_state[t] = "Pending"
        /\ m_last_wait_time = MinDeadline

\* the wait is entered after a timer's handler gave it a later deadline than
\* that of another timer in the heap, so that finalize had to sink it
C3_Witness ==
    /\ pc = "wait"
    /\ \E a \in fired \cap armed, b \in Timers :
          /\ a # b
          /\ InHeap(a)
          /\ InHeap(b)
          /\ m_time[b] < m_time[a]

\* C4: a timer is Idle iff it is not in the timer heap.
C4_IdleIffNotInHeap ==
    \A t \in alive : (m_state[t] = "Idle") <=> ~InHeap(t)

\* run() has returned because of stop, with a timer whose handler ran still
\* in the heap and an Idle timer beside it
C4_Witness ==
    /\ pc = "returned"
    /\ \E t \in alive : m_state[t] \in {"TempUnset", "TempSet"} /\ InHeap(t)
    /\ \E t \in alive : m_state[t] = "Idle"

\* C5: a timer armed from inside a handler does not fire in the dispatch
\* pass of that iteration, whatever its deadline, and no timer fires twice
\* in one iteration.
C5_NotInSamePass == [][Fires => cur' \notin armed /\ cur' \notin fired]_vars

\* the dispatch pass is over and a timer armed during the iteration with a
\* deadline that is due has not fired
C5_Witness ==
    /\ pc = "dispatch_events"
    /\ \E t \in armed \ fired :
          m_state[t] = "Pending" /\ m_time[t] <= m_event_time

\* C6 as stated: a timer whose handler re-armed it and that was not unset
\* or destroyed since is, on entry to the wait, Pending with the deadline
\* its handler gave, and fires in the next iteration if that deadline is due.
C6_RearmStated ==
    /\ pc = "wait" =>
          \A t \in Timers : rearm[t].time # NoTime =>
              m_state[t] = "Pending" /\ m_time[t] = rearm[t].time
    /\ pc \in AfterPassPcs => \A t \in Timers : owed[t] # "no" => t \in fired

\* C6 amended: the same for a timer that was neither unset, destroyed nor
\* armed by another call since its handler re-armed it.
C6_RearmIntact ==
    /\ pc = "wait" =>
          \A t \in Timers : rearm[t].time # NoTime /\ rearm[t].intact =>
              m_state[t] = "Pending" /\ m_time[t] = rearm[t].time
    /\ pc \in AfterPassPcs => \A t \in Timers : owed[t] = "intact" => t \in fired

\* a timer re-armed by its handler in the iteration before has fired again
C6_Witness ==
    /\ pc \in AfterPassPcs
    /\ \E t \in fired : owed[t] = "intact"

\* C7: a timer whose handler ran and that was not armed since is not set:
\* its state is TempUnset while its handler runs, and Idle and out of the
\* heap on entry to the wait.
C7_OneShot ==
    \A t \in (fired \cap alive) \ armed :
        /\ ~isSet(t)
        /\ (pc = "timer_handler" /\ cur = t) => m_state[t] = "TempUnset"
        /\ pc = "wait" => m_state[t] = "Idle" /\ ~InHeap(t)

\* the wait is entered after a handler that left its timer alone
C7_Witness ==
    /\ pc = "wait"
    /\ (fired \cap alive) \ armed # {}

\* C8: stop is sticky; once it is set the loop thread invokes no handler and
\* enters no other phase: it only returns from run(), and that return (as
\* well as a later call of run()) leaves the timers and the wait deadline as
\* they are, timers marked Dispatch included.
C8_StopCuts ==
    [][m_stop =>
          /\ m_stop'
          /\ pc' \in {pc, "returned"}
          /\ pc' # pc => UNCHANGED <<timerVars, m_event_time, m_last_wait_time>>]_vars

\* run() has returned on stop and a timer marked due is still in the heap
C8_Witness ==
    /\ pc = "returned"
    /\ m_stop
    /\ fired # {}
    /\ \E t \in alive : m_state[t] = "Dispatch" /\ InHeap(t)

\* C9: the heap refers to live timers only, and a timer that was unset or
\* destroyed and not armed since is not fired.
C9_CancelEffective ==
    /\ [](HeapSet(m_timer_heap) \subseteq alive)
    /\ [][Fires => cur' \in alive /\ cur' \notin cancelled]_vars

\* inside a handler, another timer that was marked due in this iteration has
\* been unset before it fired
C9_Witness ==
    /\ pc = "timer_handler"
    /\ \E t \in (alive \cap cancelled) \ (armed \cup fired) :
          /\ t # cur
          /\ m_state[t] = "Idle"
          /\ m_time[t] <= m_event_time

\* C10: a signal raised once or several times since it was last off the
\* lists is linked exactly once in the two lists together, and a signal not
\* raised since is linked in neither: one handler call per pending episode.
C10_OncePerEpisode ==
    \A s \in Signals :
        Occurrences(m_pending_async_list \o m_dispatch_async_list, s)
            = IF raised[s] = 0 THEN 0 ELSE 1

\* a signal raised several times is in the batch being dispatched, once
C10_Witness ==
    \E s \in Signals :
        /\ raised[s] = 2
        /\ Occurrences(m_dispatch_async_list, s) = 1
        /\ pc = "async"

\* the loop thread goes from dispatch_async_signals into a signal's handler
AsyncFires == pc = "async" /\ pc' = "async_handler"

\* positions of the loop thread inside a call of dispatch_async_signals
AsyncPcs == {"async", "async_handler"}

Linked(list) == {list[i] : i \in 1..Len(list)}

\* C11: the handlers a call of dispatch_async_signals invokes are those of
\* the nodes it took over at its start, each at most once, so it ends after at
\* most that many; a signal raised during the call, one whose handler the
\* call already ran included, is queued on the pending list and never joins
\* the list being drained.
C11_BatchSnapshot ==
    /\ [][AsyncFires => cur' \in batch /\ cur' \notin done]_vars
    /\ [](pc \in AsyncPcs =>
            /\ done \subseteq batch
            /\ Linked(m_dispatch_async_list) \subseteq batch \ done
            /\ \A s \in done : raised[s] > 0 =>
                   Occurrences(m_pending_async_list, s) = 1)

\* the call has drained its batch and is about to end while a signal whose
\* handler it ran is queued again, together with one that was not in the batch
C11_Witness ==
    /\ pc = "async"
    /\ m_dispatch_async_list = <<>>
    /\ \E s \in done : Occurrences(m_pending_async_list, s) = 1
    /\ \E s \in Signals \ batch : Occurrences(m_pending_async_list, s) = 1

\* C12: a signal linked on the pending list is eventually dispatched (its
\* handler is invoked on the loop thread) unless it is reset or the loop is
\* stopped first; and the loop does not stay in the wait for ever while the
\* pending list is not empty.
C12_Delivered ==
    /\ \A s \in Signals :
          (Occurrences(m_pending_async_list, s) = 1)
              ~> ((pc = "async_handler" /\ cur = s) \/ s \in removed \/ m_stop)
    /\ (pc = "wait" /\ m_pending_async_list # <<>>) ~> (pc # "wait")

\* the loop is in the wait, no wakeup is requested yet, and a thread that
\* queued the first node has released the mutex and not yet called the wakeup
C12_Witness ==
    /\ pc = "wait"
    /\ ~wakeup
    /\ \E h \in Threads :
          /\ thr[h].at = "unlocked"
          /\ thr[h].first
          /\ Occurrences(m_pending_async_list, thr[h].sig) = 1

\* the first member of S in seq, if any
FirstOf(seq, S) ==
    LET r == SelectSeq(seq, LAMBDA x : x \in S)
    IN  IF r = <<>> THEN NoObject ELSE Head(r)

\* C13: within a call of dispatch_async_signals the handler invoked next is
\* that of the node which, among the nodes of the batch still linked (those
\* reset meanwhile are skipped), was queued by the earliest signal() call.
C13_Fifo ==
    [][AsyncFires => cur' = FirstOf(order, Linked(m_dispatch_async_list))]_vars

\* the second handler of a batch runs
C13_Witness ==
    /\ pc = "async_handler"
    /\ Cardinality(done) >= 2
    /\ Cardinality(batch) >= 2

\* C14: the loop thread holds the mutex only between the lock and the
\* unlock inside dispatch_async_signals: never while a timer, fd or
\* async-signal handler runs, so that signal() and reset() called by a
\* handler acquire it, and never after dispatch_async_signals has returned,
\* with true or, on stop, with false.
C14_MutexFreeInHandlers == mutex = "loop" => pc = "async"

\* an async-signal handler has signalled its own object while other nodes of
\* the batch are still to be dispatched
C14_Witness ==
    /\ pc = "async_handler"
    /\ cur # NoObject
    /\ Occurrences(m_pending_async_list, cur) = 1
    /\ m_dispatch_async_list # <<>>
    /\ mutex = "free"

FdTableOk ==
    /\ \A fd \in Fds :
          registered[fd].on <=> (\E w \in walive : m_watched_fd[w] = fd)
    /\ \A w \in walive :
          IF m_watched_fd[w] >= 0
          THEN registered[m_watched_fd[w]].mask = m_events[w]
          ELSE m_watched_fd[w] = NoFd /\ m_events[w] = {}

\* C17: an fd is registered with the provider iff a live watcher has it, a
\* watcher with an fd has the mask the provider knows, and a watcher without
\* fd has the empty mask; reset() leaves the watcher without fd and with the
\* empty mask; updateEvents with the mask the watcher has makes no provider
\* call and changes nothing.
C17_FdConsistent ==
    /\ [](FdTableOk)
    /\ [][/\ \A w \in Watchers :
                FdReset(w) => m_watched_fd'[w] = NoFd /\ m_events'[w] = {}
          /\ \A w \in Watchers :
                FdUpdate(w, m_events[w]) =>
                    /\ provider_call' = "none"
                    /\ UNCHANGED <<m_watched_fd, m_events, registered>>]_vars

\* two watchers are registered and the last operation changed a mask
C17_Witness ==
    /\ provider_call = "updateEventsImpl"
    /\ \E w1, w2 \in walive :
          /\ w1 # w2
          /\ m_watched_fd[w1] >= 0
          /\ m_watched_fd[w2] >= 0
          /\ m_events[w1] # {}

\* C18 as stated: m_dispatch_async_list is lonely in every state in which
\* dispatch_async_signals is not executing, also after it returned false.
C18_DispatchLonely ==
    pc \notin AsyncPcs => m_dispatch_async_list = <<>>

\* C18, amended: m_dispatch_async_list is lonely whenever
\* dispatch_async_signals is not executing and the loop has not been stopped;
\* it is lonely at every entry of dispatch_async_signals; after a stop the
\* list holds only nodes of the interrupted batch, it never grows, and it is
\* lonely once every signal was reset or destroyed.
C18_DispatchLonelyUnlessStopped ==
    /\ [](pc \notin AsyncPcs /\ ~m_stop => m_dispatch_async_list = <<>>)
    /\ [](pc \notin AsyncPcs /\ removed = Signals => m_dispatch_async_list = <<>>)
    /\ [][/\ AsyncBegin => m_dispatch_async_list = <<>>
          /\ pc \notin AsyncPcs /\ pc' \notin AsyncPcs =>
                Linked(m_dispatch_async_list') \subseteq Linked(m_dispatch_async_list)]_vars

\* dispatch_async_signals has returned false after a handler called stop(),
\* with a node of the batch still linked in m_dispatch_async_list
C18_Witness ==
    /\ pc = "returned"
    /\ m_stop
    /\ m_dispatch_async_list # <<>>

\* C19: whenever the mutex is free, a signal carries the removed marker iff
\* it is linked in neither m_pending_async_list nor m_dispatch_async_list,
\* and no signal is linked twice, in one list or across the two.
C19_RemovedIffUnlinked ==
    mutex = "free" =>
        \A s \in Signals :
            LET links == Occurrences(m_pending_async_list \o m_dispatch_async_list, s)
            IN  /\ links <= 1
                /\ s \in removed <=> links = 0

\* inside a handler of a batch with a node still to be dispatched, another
\* thread has queued the handler's own signal again and released the mutex
C19_Witness ==
    /\ pc = "async_handler"
    /\ mutex = "free"
    /\ m_dispatch_async_list # <<>>
    /\ \E h \in Threads :
          /\ thr[h].at = "unlocked"
          /\ thr[h].sig = cur
    /\ Occurrences(m_pending_async_list, cur) = 1
    /\ cur \notin removed

\* the step returns from prepare_timers_for_wait and enters the wait
EntersWait == pc # "wait" /\ pc' = "wait"

\* C20: the hint time_changed handed to a wait is true iff the first_time
\* handed to it differs from the first_time handed to the previous wait,
\* Time::max() before the first one: m_last_wait_time is Time::max() until
\* run() is called, it changes in no step but the one entering a wait, and
\* there it becomes the first_time returned, with time_changed telling
\* whether that differs from the value it had.
C20_TimeChangedHint ==
    /\ [](pc = "outside" => m_last_wait_time = TimeMax)
    /\ [](pc = "wait" => m_last_wait_time = MinDeadline)
    /\ [][IF EntersWait
          THEN /\ m_last_wait_time' = prepare_timers_for_wait(TimerRec).first_time
               /\ time_changed' <=> (m_last_wait_time' # m_last_wait_time)
          ELSE m_last_wait_time' = m_last_wait_time]_vars

\* a wait with a timer's deadline has been entered with the hint 'changed'
C20_Witness ==
    /\ pc = "wait"
    /\ time_changed
    /\ m_last_wait_time < TimeMax

\* the states of the roots the loop of prepare_timers_for_wait sees, one per
\* round, where its assertion is evaluated
RECURSIVE WaitRootStates(_)
WaitRootStates(T) ==
    LET tim == HeapFirst(T.h)
    IN  IF tim = NoObject
        THEN {}
        ELSE {T.st[tim]} \cup
             (IF T.st[tim] = "TempUnset"
              THEN WaitRootStates([T EXCEPT !.h = HeapRemove(T.st, T.tm, T.h, tim),
                                            !.st[tim] = "Idle"])
              ELSE IF T.st[tim] = "TempSet"
                   THEN LET st1 == [T.st EXCEPT ![tim] = "Pending"]
                        IN  WaitRootStates([T EXCEPT !.st = st1,
                                                     !.h = HeapFixup(st1, T.tm, T.h, tim)])
                   ELSE {})

\* the step enters prepare_timers_for_dispatch: run() starts its first
\* iteration, or the wait has returned
EntersDispatch == pc \in OutsidePcs \cup {"wait"} /\ pc' = "dispatch_timers"

\* the positions of the loop thread between dispatch_timers and
\* prepare_timers_for_wait
EventPcs == {"dispatch_events", "fd_handler", "async_lock", "async", "async_handler"}

\* C21: the assertions on timer states hold at each phase: when
\* prepare_timers_for_dispatch is entered every timer in the heap is alive
\* and Pending, so compareKeyEntry only sees Pending timers; the root
\* dispatch_timers looks at is alive and in a heap state; no timer in the
\* heap is Dispatch while fd and async-signal handlers run, and no root
\* prepare_timers_for_wait looks at is Dispatch or Idle.
C21_PhaseAssertions ==
    /\ [][EntersDispatch =>
            \A t \in HeapSet(m_timer_heap) : t \in alive /\ m_state[t] = "Pending"]_vars
    /\ [](pc = "dispatch_timers" /\ HeapFirst(m_timer_heap) # NoObject =>
            /\ HeapFirst(m_timer_heap) \in alive
            /\ m_state[HeapFirst(m_timer_heap)] \in OneOfHeapTimerStates)
    /\ [](pc \in EventPcs =>
            \A t \in HeapSet(m_timer_heap) : t \in alive /\ m_state[t] # "Dispatch")
    /\ [][EntersWait =>
            WaitRootStates(TimerRec) \subseteq {"TempUnset", "TempSet", "Pending"}]_vars

\* the wait has been entered after prepare_timers_for_wait promoted a timer
\* that fired in this iteration and was armed again with a deadline already
\* due, and a timer armed by a handler without having fired is in the heap
\* beside it
C21_Witness ==
    /\ pc = "wait"
    /\ \E a \in fired \cap armed, b \in armed \ fired :
          /\ InHeap(a)
          /\ InHeap(b)
          /\ m_state[a] = "Pending"
          /\ m_time[a] <= m_event_time

====
